---- MODULE Spec2Model ----
(***************************************************************************)
(* Model of the upload scheduler (scheduler.py) over the Google-Sheets     *)
(* queue store (sheets_manager.py), driven by the bot's two entry points   *)
(* (bot.py: the repeating job and the /upload command) and by ingestion.   *)
(*                                                                         *)
(* Dates are day numbers (strftime("%Y-%m-%d") is injective on days), the  *)
(* empty date string is NoDate.  A worksheet is the sequence of its data   *)
(* rows; data row number r (r >= 2, row 1 is the header) is element r-1.   *)
(***************************************************************************)
EXTENDS Integers, Sequences, FiniteSets, TLC

\* ------------------------------------------------------------------ bounds
\* MaxRows: data rows in use, over both worksheets together.
MaxRows == 3
MaxDay == 2
MaxUntitled == 1
\* MaxRuns: runs of the periodic job that are followed.
MaxRuns == 3

\* ------------------------------------------------------- program constants
MAX_UPLOADS_PER_DAY_YOUTUBE == 1
MAX_UPLOADS_PER_DAY_FACEBOOK == 2
Tolerance == 30
SCHEDULER_INTERVAL_MINUTES == 5
HalfDay == 720
MinutesPerDay == 1440

UPLOAD_SCHEDULE_HOURS ==
    << <<"2", "1", ":", "0", "0">>,
       <<"0", "0", ":", "0", "0">>,
       <<"0", "3", ":", "0", "0">> >>

NoDate == 0

\* Times of day (minutes after midnight) at which the clock is observed:
\* 20:29 and 20:31, one minute either side of the 21:00 window's edge.
ClockMinutes == {1229, 1231}

Threads == {"timer", "cmd"}
PlatformOrder == <<"youtube", "facebook">>
Platforms == {"youtube", "facebook"}
Filenames == {"my_clip.mp4"}

\* Character sequences, for the texts that are taken apart.
DriveHost ==
    <<"h", "t", "t", "p", "s", ":", "/", "/", "d", "r", "i", "v", "e", ".",
      "g", "o", "o", "g", "l", "e", ".", "c", "o", "m">>
FileD == <<"/", "f", "i", "l", "e", "/", "d", "/">>
IdEq == <<"i", "d", "=">>
ABC123 == <<"A", "B", "C", "1", "2", "3">>
View == <<"/", "v", "i", "e", "w">>

\* webViewLink of an uploaded file, as drive_uploader.upload returns it.
DriveLinks == {"https://drive.google.com/file/d/ABC123/view"}

\* The characters of a stored link.
Characters(link) ==
    CASE link = "" -> <<>>
      [] link = "https://drive.google.com/file/d/ABC123/view"
            -> DriveHost \o FileD \o ABC123 \o View
Titles == {"", " ", "Generated Title"}

VARIABLES sheets, now, pc, frame, uploads_done, status_msg, temp_dir, facebook, groq,
          call

vars ==
    <<sheets, now, pc, frame, uploads_done, status_msg, temp_dir, facebook, groq,
      call>>

\* ------------------------------------------------------------ queue store
BlankRow ==
    [timestamp |-> NoDate, filename |-> "", drive_link |-> "", title |-> "",
     description |-> "", tags |-> "", status |-> "", youtube_link |-> "",
     scheduled_date |-> NoDate, channel |-> ""]

TargetSheet(platform) == IF platform = "facebook" THEN "fb_sheet" ELSE "sheet"

update_cell(ws, row, col, val) ==
    LET padded == IF row - 1 > Len(ws)
                  THEN ws \o [k \in 1..(row - 1 - Len(ws)) |-> BlankRow]
                  ELSE ws
    IN [padded EXCEPT ![row - 1][col] = val]

update_status(S, row, status, platform) ==
    [S EXCEPT ![TargetSheet(platform)] = update_cell(@, row, "status", status)]

\* Variant: the generated metadata stay in the item read by the cycle and are
\* not written to the sheet.
update_metadata_dropped(S, row, title, description, tags, platform) == S

\* Variant: the three cells are written one column to the left (B, C, D).
update_metadata_shifted_left(S, row, title, description, tags, platform) ==
    [S EXCEPT ![TargetSheet(platform)] =
        update_cell(update_cell(update_cell(@, row, "filename", title),
                                row, "drive_link", description),
                    row, "title", tags)]

update_metadata(S, row, title, description, tags, platform) ==
    [S EXCEPT ![TargetSheet(platform)] =
        update_cell(update_cell(update_cell(@, row, "title", title),
                                row, "description", description),
                    row, "tags", tags)]

set_youtube_link(S, row, youtube_link, platform) ==
    update_status(
        [S EXCEPT ![TargetSheet(platform)] =
            update_cell(@, row, "youtube_link", youtube_link)],
        row, "uploaded", "youtube")

\* Variant: the status is written but the date cell is left empty.
set_scheduled_date_without_date(S, row, date_str, platform) ==
    update_status(
        [S EXCEPT ![TargetSheet(platform)] =
            update_cell(@, row, "scheduled_date", NoDate)],
        row, "scheduled", platform)

\* Variant: the date is written but the status is left as it was.
set_scheduled_date_keeps_status(S, row, date_str, platform) ==
    [S EXCEPT ![TargetSheet(platform)] =
        update_cell(@, row, "scheduled_date", date_str)]

set_scheduled_date(S, row, date_str, platform) ==
    update_status(
        [S EXCEPT ![TargetSheet(platform)] =
            update_cell(@, row, "scheduled_date", date_str)],
        row, "scheduled", platform)

VideoDict(ws, i) ==
    [row |-> i + 1, timestamp |-> ws[i].timestamp, filename |-> ws[i].filename,
     drive_link |-> ws[i].drive_link, title |-> ws[i].title,
     description |-> ws[i].description, tags |-> ws[i].tags,
     status |-> ws[i].status, youtube_link |-> ws[i].youtube_link,
     scheduled_date |-> ws[i].scheduled_date, channel |-> ws[i].channel]

AllVideos(ws) == [i \in 1..Len(ws) |-> VideoDict(ws, i)]

IsPendingVideo(v) == v.status = "pending"

Reverse(seq) == [k \in 1..Len(seq) |-> seq[Len(seq) + 1 - k]]

\* Variant: the pending rows are returned newest first.
get_pending_videos_newest_first(S, platform) ==
    Reverse(SelectSeq(AllVideos(S[TargetSheet(platform)]), IsPendingVideo))

get_pending_videos(S, platform) ==
    SelectSeq(AllVideos(S[TargetSheet(platform)]), IsPendingVideo)

get_scheduled_videos(S, date_str, platform) ==
    LET IsScheduledFor(v) == v.status = "scheduled" /\ v.scheduled_date = date_str
    IN SelectSeq(AllVideos(S[TargetSheet(platform)]), IsScheduledFor)

\* Variant: the pending rows are put in front of today's scheduled rows.
eligible_candidates_pending_first(S, today, platform) ==
    get_pending_videos(S, platform) \o get_scheduled_videos(S, today, platform)

\* Lines 147-150: today's scheduled rows, then the pending rows.
eligible_candidates(S, today, platform) ==
    get_scheduled_videos(S, today, platform) \o get_pending_videos(S, platform)

count_uploads_today(S, platform, today) ==
    LET ws == S[TargetSheet(platform)]
    IN Cardinality({i \in 1..Len(ws) :
                       ws[i].status = "uploaded" /\ ws[i].timestamp = today})

MaxUploads(platform) ==
    IF platform = "youtube" THEN MAX_UPLOADS_PER_DAY_YOUTUBE
    ELSE MAX_UPLOADS_PER_DAY_FACEBOOK

Max2(a, b) == IF a >= b THEN a ELSE b
Min2(a, b) == IF a <= b THEN a ELSE b

remaining_today(S, platform, today) ==
    Max2(0, MaxUploads(platform) - count_uploads_today(S, platform, today))

CountStatus(ws, status) ==
    Cardinality({i \in 1..Len(ws) : ws[i].status = status})

get_queue_summary(S, platform, today) ==
    LET ws == S[TargetSheet(platform)]
    IN [total |-> Len(ws),
        pending |-> CountStatus(ws, "pending"),
        scheduled |-> CountStatus(ws, "scheduled"),
        uploaded |-> CountStatus(ws, "uploaded"),
        failed |-> CountStatus(ws, "failed"),
        uploads_today |-> count_uploads_today(S, platform, today),
        remaining_today |-> remaining_today(S, platform, today)]

\* ------------------------------------------------------------ window gate
Digits == <<"0", "1", "2", "3", "4", "5", "6", "7", "8", "9">>
IsDigit(c) == \E d \in 1..10 : Digits[d] = c
DigitVal(c) == (CHOOSE d \in 1..10 : Digits[d] = c) - 1

RECURSIVE SplitColon(_)
SplitColon(s) ==
    IF \A k \in 1..Len(s) : s[k] # ":"
    THEN <<s>>
    ELSE LET k == CHOOSE j \in 1..Len(s) :
                      s[j] = ":" /\ \A q \in 1..(j - 1) : s[q] # ":"
         IN <<SubSeq(s, 1, k - 1)>> \o SplitColon(SubSeq(s, k + 1, Len(s)))

IsInt(s) == Len(s) > 0 /\ \A k \in 1..Len(s) : IsDigit(s[k])

RECURSIVE ToInt(_)
ToInt(s) ==
    IF Len(s) = 0 THEN 0
    ELSE 10 * ToInt(SubSeq(s, 1, Len(s) - 1)) + DigitVal(s[Len(s)])

WellFormed(time_str) ==
    LET parts == SplitColon(time_str)
    IN Len(parts) = 2 /\ IsInt(parts[1]) /\ IsInt(parts[2])

ScheduledMinutes(time_str) ==
    LET parts == SplitColon(time_str)
    IN ToInt(parts[1]) * 60 + ToInt(parts[2])

Abs(x) == IF x < 0 THEN -x ELSE x

\* Variant: the distance is not taken round midnight.
SlotDiff_no_wrap(current_minutes, scheduled_minutes) ==
    Abs(current_minutes - scheduled_minutes)

SlotDiff(current_minutes, scheduled_minutes) ==
    LET diff == Abs(current_minutes - scheduled_minutes)
    IN IF diff > HalfDay THEN MinutesPerDay - diff ELSE diff

\* Variant: the +/-5 minute window the docstring describes.
is_upload_time_five_minutes(current_minutes) ==
    \E k \in 1..Len(UPLOAD_SCHEDULE_HOURS) :
        /\ WellFormed(UPLOAD_SCHEDULE_HOURS[k])
        /\ SlotDiff(current_minutes,
                    ScheduledMinutes(UPLOAD_SCHEDULE_HOURS[k])) <= 5

\* Lines 52-68 for a given slot list: a slot that does not split into two
\* integers raises ValueError and is passed over.
is_upload_time_for(schedule, current_minutes) ==
    \E k \in 1..Len(schedule) :
        /\ WellFormed(schedule[k])
        /\ SlotDiff(current_minutes, ScheduledMinutes(schedule[k])) <= Tolerance

is_upload_time(current_minutes) ==
    is_upload_time_for(UPLOAD_SCHEDULE_HOURS, current_minutes)


\* Lines 70-90: the configured slot that comes next after the current time.
NextSlotDiff(time_str, current_minutes) ==
    LET diff == ScheduledMinutes(time_str) - current_minutes
    IN IF diff < 0 THEN diff + MinutesPerDay ELSE diff

get_next_upload_time(current_minutes) ==
    LET upcoming == {k \in 1..Len(UPLOAD_SCHEDULE_HOURS) :
                        WellFormed(UPLOAD_SCHEDULE_HOURS[k])}
    IN IF upcoming = {} THEN <<"N", "/", "A">>
       ELSE UPLOAD_SCHEDULE_HOURS[
                CHOOSE k \in upcoming : \A j \in upcoming :
                    NextSlotDiff(UPLOAD_SCHEDULE_HOURS[k], current_minutes)
                        <= NextSlotDiff(UPLOAD_SCHEDULE_HOURS[j], current_minutes)]

\* ------------------------------------------------------------ drive links
\* Position of the first occurrence of sub in s, 0 when there is none.
Find(s, sub) ==
    LET At(k) == k + Len(sub) - 1 <= Len(s)
                    /\ SubSeq(s, k, k + Len(sub) - 1) = sub
    IN IF \E k \in 1..Len(s) : At(k)
       THEN CHOOSE k \in 1..Len(s) : At(k) /\ \A j \in 1..(k - 1) : ~At(j)
       ELSE 0

\* sub in s
Contains(s, sub) == Find(s, sub) # 0

\* s.split(sep)[0]
SplitFirst(s, sep) ==
    IF Contains(s, sep) THEN SubSeq(s, 1, Find(s, sep) - 1) ELSE s

\* s.split(sep)[1], for an s that contains sep
SplitSecond(s, sep) ==
    SplitFirst(SubSeq(s, Find(s, sep) + Len(sep), Len(s)), sep)

Whitespace == {" "}

\* s.strip()
RECURSIVE StripChars(_)
StripChars(s) ==
    IF s = <<>> THEN s
    ELSE IF Head(s) \in Whitespace THEN StripChars(Tail(s))
    ELSE IF s[Len(s)] \in Whitespace THEN StripChars(SubSeq(s, 1, Len(s) - 1))
    ELSE s

\* Variant: the query string is left on the path segment.
_extract_drive_id_keeps_query(drive_link) ==
    IF drive_link = <<>> THEN <<>>
    ELSE IF Contains(drive_link, FileD)
    THEN SplitFirst(SplitSecond(drive_link, FileD), <<"/">>)
    ELSE IF Contains(drive_link, IdEq)
    THEN SplitFirst(SplitSecond(drive_link, IdEq), <<"&">>)
    ELSE StripChars(drive_link)

_extract_drive_id(drive_link) ==
    IF drive_link = <<>> THEN <<>>
    ELSE IF Contains(drive_link, FileD)
    THEN SplitFirst(SplitFirst(SplitSecond(drive_link, FileD), <<"/">>), <<"?">>)
    ELSE IF Contains(drive_link, IdEq)
    THEN SplitFirst(SplitSecond(drive_link, IdEq), <<"&">>)
    ELSE StripChars(drive_link)

\* Line 206 for each link a row of the model can hold.
FileId ==
    [link \in DriveLinks \cup {""} |-> _extract_drive_id(Characters(link))]

\* ------------------------------------------------------ external services
\* What the Groq call of groq_metadata.py 34-56 yields: a JSON object, text
\* that json.loads rejects, or an API error (as with the empty GROQ_API_KEY
\* that config.py 26 defaults to).
Responses == {"json", "malformed", "api_error"}

\* Lines 71-73 / 78-80: filename.rsplit(".", 1)[0].replace("_", " ").title()
\* and the fixed description and tags, for the file names of the model.
FallbackMetadata(filename) ==
    [title |-> CASE filename = "my_clip.mp4" -> "My Clip"
                 [] OTHER -> filename,
     description |-> CASE filename = "my_clip.mp4" -> "Video: my_clip.mp4"
                       [] OTHER -> filename,
     tags |-> "video"]

\* generate_metadata, lines 26-81.
generate_metadata(filename, response) ==
    IF response = "json"
    THEN [title |-> "Generated Title", description |-> "Generated description",
          tags |-> "tag1, tag2"]
    ELSE FallbackMetadata(filename)

\* Link returned by the platform's Upload Gateway for an accepted upload.
VideoLink(platform) ==
    IF platform = "youtube" THEN "https://youtu.be/vid"
    ELSE "https://www.facebook.com/reel/vid"

\* Variant: a failure of the Metadata Generator is raised to _process_single.
PrepareOutcomes_metadata_error == {"ok", "download_error", "metadata_error"}

\* Ways lines 204-217 of _process_single can end.
PrepareOutcomes == {"ok", "download_error"}

\* os.remove on a staged file: it is deleted, or PermissionError is raised and
\* the file stays (scheduler.py 268-272, bot.py 618-619, 838-840).
RemovalOutcomes == {"removed", "denied"}

remove(dir, path, removal) ==
    IF removal = "removed" THEN dir \ {path} ELSE dir

\* drive_uploader.download, lines 122-128: the destination file is opened for
\* writing before the first chunk is fetched, so it exists afterwards whether
\* or not the transfer completed.
download(dir, path) == dir \cup {path}

\* facebook_uploader.py, lines 23-25.
is_configured(fb) == fb.access_token # "" /\ fb.page_id # ""

\* Ways lines 219-264 of _process_single can end, per platform; upload_reel
\* returns its failure at once when the page credentials are missing.
\* For YouTube the step fails before the gateway is reached when the slot
\* count cannot be had (slot_error: sheets_manager.py has no
\* count_uploaded_for_date), and fails in the call of lines 244-250 when the
\* uploader does not take publish_at (upload_error: youtube_uploader.py 75-83
\* lists no such parameter); it succeeds with an uploader that accepts the
\* call.
UploadOutcomes(platform, fb) ==
    IF platform = "youtube" THEN {"ok", "upload_error", "slot_error"}
    ELSE IF is_configured(fb) THEN {"ok", "upload_error"}
    ELSE {"upload_error"}

\* --------------------------------------------------------------- scheduler
\* str.strip() on the stored titles: the all-blank ones become empty, a title
\* without surrounding blanks is returned as it is.
strip(s) == IF s \in {"", " "} THEN "" ELSE s

\* Variant: metadata is generated for every item.
needs_metadata_always(video) == TRUE

\* The rows of a platform that were uploaded for a date: the count that
\* _process_single asks of the store at line 227.
count_uploaded_for_date(S, date_str, platform) ==
    LET ws == S[TargetSheet(platform)]
    IN Cardinality({i \in 1..Len(ws) :
                       ws[i].status = "uploaded"
                           /\ ws[i].scheduled_date = date_str})

\* Lines 223-225.
ScheduledDateStr(video_date, today) ==
    IF video_date = NoDate THEN today ELSE video_date

\* Variant: the count is used as the index without the clamp.
SlotIndex_unclamped(uploaded) == uploaded

\* Lines 227-229: the index (Python's, from 0) into UPLOAD_SCHEDULE_HOURS.
SlotIndex(uploaded) ==
    IF uploaded >= Len(UPLOAD_SCHEDULE_HOURS)
    THEN Len(UPLOAD_SCHEDULE_HOURS) - 1
    ELSE uploaded

\* The date and slot the publish instant of a YouTube item is taken from
\* (lines 221-231); facebook items are published at once.
NoPublish == [date |-> NoDate, slot_index |-> 0]

PublishSlot(S, video, platform, today) ==
    IF platform = "youtube"
    THEN LET scheduled_date_str == ScheduledDateStr(video.scheduled_date, today)
         IN [date |-> scheduled_date_str,
             slot_index |->
                 SlotIndex(count_uploaded_for_date(S, scheduled_date_str,
                                                   platform))]
    ELSE NoPublish

\* Record of one call of a gateway (244, 255), with the slot of publish_at.
GatewayCall(platform, video, publish) ==
    [platform |-> platform, row |-> video.row, date |-> publish.date,
     slot_index |-> publish.slot_index]

\* Line 192: not video.get("title", "").strip()
needs_metadata(video) == strip(video.title) = ""

IdleFrame ==
    [platform_idx |-> 0, force |-> FALSE, gate |-> "", today |-> NoDate,
     tomorrow |-> NoDate, remaining |-> 0, to_process |-> <<>>, pos |-> 0,
     results |-> <<>>, generator_calls |-> 0, attempted |-> <<>>,
     gateway_calls |-> <<>>, removal |-> "none", publish |-> NoPublish]

CurrentPlatform(t) == PlatformOrder[frame[t].platform_idx]

RECURSIVE ScheduleEach(_, _, _, _)
ScheduleEach(S, pending, date_str, platform) ==
    IF pending = <<>> THEN S
    ELSE ScheduleEach(set_scheduled_date(S, Head(pending).row, date_str, platform),
                      Tail(pending), date_str, platform)

\* Variant: the pending rows are left as they are.
_schedule_remaining_nothing(S, date_str, platform) == S

_schedule_remaining(S, date_str, platform) ==
    ScheduleEach(S, get_pending_videos(S, platform), date_str, platform)

\* Variant: one upload more than the quota allows.
remaining_quota_off_by_one(platform, uploads_today) ==
    MaxUploads(platform) - uploads_today + 1

remaining_quota(platform, uploads_today) ==
    MaxUploads(platform) - uploads_today

\* Variant: facebook is processed up to the remaining quota in every cycle.
CycleLimit_never_capped(platform, force, remaining) == remaining

CycleLimit(platform, force, remaining) ==
    IF platform = "youtube" THEN remaining
    ELSE IF force THEN remaining ELSE 1

\* Record of one call of _process_single (line 167).
Attempt(platform, video) == [platform |-> platform, row |-> video.row]

\* Lines 105-109 / 117-121: the platform loop moves on, or the cycle returns.
EndPlatform(t, S, R, called, gateway, removal) ==
    /\ sheets' = S
    /\ IF frame[t].platform_idx < Len(PlatformOrder)
       THEN /\ pc' = [pc EXCEPT ![t] = "platform_queue"]
            /\ frame' = [frame EXCEPT ![t] =
                   [IdleFrame EXCEPT !.platform_idx = frame[t].platform_idx + 1,
                                     !.force = frame[t].force,
                                     !.gate = frame[t].gate,
                                     !.generator_calls = called,
                                     !.attempted = frame[t].attempted,
                                     !.gateway_calls = gateway,
                                     !.removal = removal,
                                     !.results = R]]
       ELSE /\ pc' = [pc EXCEPT ![t] = "returned"]
            /\ frame' = [frame EXCEPT ![t] =
                   [IdleFrame EXCEPT !.force = frame[t].force,
                                     !.gate = frame[t].gate,
                                     !.generator_calls = called,
                                     !.attempted = frame[t].attempted,
                                     !.gateway_calls = gateway,
                                     !.removal = removal,
                                     !.results = R]]

\* Variant: the loop is left at the first failed item.
AfterSingle_break_on_failure(t, S, result, called, gateway, removal) ==
    LET remaining == IF result.success THEN frame[t].remaining - 1
                     ELSE frame[t].remaining
        R == Append(frame[t].results, result)
        stop == ~result.success \/ remaining <= 0
                    \/ frame[t].pos >= Len(frame[t].to_process)
    IN IF stop
       THEN EndPlatform(t,
                IF remaining <= 0
                THEN _schedule_remaining(S, frame[t].tomorrow, CurrentPlatform(t))
                ELSE S,
                R, called, gateway, removal)
       ELSE /\ sheets' = S
            /\ pc' = [pc EXCEPT ![t] = "process_single"]
            /\ frame' = [frame EXCEPT
                   ![t].remaining = remaining,
                   ![t].results = R,
                   ![t].generator_calls = called,
                   ![t].gateway_calls = gateway,
                   ![t].removal = removal,
                   ![t].attempted =
                       Append(@, Attempt(CurrentPlatform(t),
                                         frame[t].to_process[frame[t].pos + 1])),
                   ![t].pos = frame[t].pos + 1]

\* Lines 168-178: bookkeeping after one _process_single call has returned.
AfterSingle(t, S, result, called, gateway, removal) ==
    LET remaining == IF result.success THEN frame[t].remaining - 1
                     ELSE frame[t].remaining
        R == Append(frame[t].results, result)
        stop == (result.success /\ remaining <= 0)
                    \/ frame[t].pos >= Len(frame[t].to_process)
    IN IF stop
       THEN EndPlatform(t,
                IF remaining <= 0
                THEN _schedule_remaining(S, frame[t].tomorrow, CurrentPlatform(t))
                ELSE S,
                R, called, gateway, removal)
       ELSE /\ sheets' = S
            /\ pc' = [pc EXCEPT ![t] = "process_single"]
            /\ frame' = [frame EXCEPT
                   ![t].remaining = remaining,
                   ![t].results = R,
                   ![t].generator_calls = called,
                   ![t].gateway_calls = gateway,
                   ![t].removal = removal,
                   ![t].attempted =
                       Append(@, Attempt(CurrentPlatform(t),
                                         frame[t].to_process[frame[t].pos + 1])),
                   ![t].pos = frame[t].pos + 1]

\* Variant: the result of a failed item carries no reason.
FailureResult_without_reason(video, error) ==
    [success |-> FALSE, row |-> video.row, filename |-> video.filename,
     error |-> ""]

FailureResult(video, error) ==
    [success |-> FALSE, row |-> video.row, filename |-> video.filename,
     error |-> error]

SuccessResult(video, video_link) ==
    [success |-> TRUE, row |-> video.row, filename |-> video.filename,
     youtube_link |-> video_link]

\* Variant: outside the windows the quota of each platform is still looked at,
\* and the pending rows of an exhausted platform are scheduled for tomorrow.
process_queue_quota_first(t) ==
    /\ t = "timer"
    /\ pc[t] = "idle"
    /\ IF ~is_upload_time(now.minute)
       THEN LET Exhausted(S, p) ==
                    remaining_quota(p, count_uploads_today(S, p, now.day)) <= 0
                Push(S, p) == IF Exhausted(S, p)
                              THEN _schedule_remaining(S, now.day + 1, p)
                              ELSE S
            IN /\ pc' = [pc EXCEPT ![t] = "returned"]
               /\ frame' = [frame EXCEPT ![t] = [IdleFrame EXCEPT !.gate = "closed"]]
               /\ sheets' = Push(Push(sheets, "youtube"), "facebook")
       ELSE /\ pc' = [pc EXCEPT ![t] = "platform_queue"]
            /\ frame' = [frame EXCEPT ![t] =
                   [IdleFrame EXCEPT !.platform_idx = 1, !.gate = "open"]]
            /\ UNCHANGED sheets
    /\ UNCHANGED <<now, uploads_done, status_msg, temp_dir, facebook, groq, call>>

process_queue(t) ==
    /\ t = "timer"
    /\ pc[t] = "idle"
    /\ IF ~is_upload_time(now.minute)
       THEN /\ pc' = [pc EXCEPT ![t] = "returned"]
            /\ frame' = [frame EXCEPT ![t] = [IdleFrame EXCEPT !.gate = "closed"]]
       ELSE /\ pc' = [pc EXCEPT ![t] = "platform_queue"]
            /\ frame' = [frame EXCEPT ![t] =
                   [IdleFrame EXCEPT !.platform_idx = 1, !.gate = "open"]]
    /\ UNCHANGED <<sheets, now, uploads_done, status_msg, temp_dir, facebook, groq, call>>

force_upload(t) ==
    /\ t = "cmd"
    /\ pc[t] = "idle"
    /\ pc' = [pc EXCEPT ![t] = "platform_queue"]
    /\ frame' = [frame EXCEPT ![t] =
           [IdleFrame EXCEPT !.platform_idx = 1, !.force = TRUE,
                             !.gate = "forced"]]
    /\ UNCHANGED <<sheets, now, uploads_done, status_msg, temp_dir, facebook, groq, call>>

_process_platform_queue(t) ==
    /\ pc[t] = "platform_queue"
    /\ LET platform == CurrentPlatform(t)
           today == now.day
           tomorrow == now.day + 1
           uploads_today == count_uploads_today(sheets, platform, today)
           remaining == remaining_quota(platform, uploads_today)
           to_process == eligible_candidates(sheets, today, platform)
           limit == CycleLimit(platform, frame[t].force, remaining)
       IN IF remaining <= 0
          THEN EndPlatform(t, _schedule_remaining(sheets, tomorrow, platform),
                           frame[t].results, frame[t].generator_calls,
                           frame[t].gateway_calls, frame[t].removal)
          ELSE IF to_process = <<>>
          THEN EndPlatform(t, sheets, frame[t].results, frame[t].generator_calls,
                           frame[t].gateway_calls, frame[t].removal)
          ELSE /\ pc' = [pc EXCEPT ![t] = "process_single"]
               /\ frame' = [frame EXCEPT
                      ![t].today = today,
                      ![t].tomorrow = tomorrow,
                      ![t].remaining = remaining,
                      ![t].to_process =
                          SubSeq(to_process, 1, Min2(limit, Len(to_process))),
                      ![t].attempted = Append(@, Attempt(platform, to_process[1])),
                      ![t].pos = 1]
               /\ UNCHANGED sheets
    /\ UNCHANGED <<now, uploads_done, status_msg, temp_dir, facebook, groq, call>>

\* _process_single, lines 185-241: metadata, file id, download, mark
\* "uploading", slot of the publish instant; a link without a file id ends
\* the item before the download.
_process_single_prepare(t) ==
    /\ pc[t] = "process_single"
    /\ \E outcome \in PrepareOutcomes :
         LET platform == CurrentPlatform(t)
             video == frame[t].to_process[frame[t].pos]
             row == video.row
             generate == needs_metadata(video)
             metadata == generate_metadata(video.filename, groq)
             S1 == IF generate
                   THEN update_metadata(sheets, row, metadata.title,
                                        metadata.description, metadata.tags,
                                        platform)
                   ELSE sheets
             called == IF generate THEN frame[t].generator_calls + 1
                       ELSE frame[t].generator_calls
             file_id == FileId[video.drive_link]
         IN IF file_id = <<>>
            THEN /\ outcome = "ok"
                 /\ UNCHANGED temp_dir
                 /\ AfterSingle(t, update_status(S1, row, "failed", platform),
                                FailureResult(video, "ValueError"), called,
                                frame[t].gateway_calls, "none")
            ELSE
            /\ temp_dir' = download(temp_dir, video.filename)
            /\ IF outcome = "ok"
               THEN /\ sheets' = update_status(S1, row, "uploading", platform)
                    /\ pc' = [pc EXCEPT ![t] = "upload"]
                    /\ frame' = [frame EXCEPT
                           ![t].generator_calls = called,
                           ![t].publish =
                               PublishSlot(update_status(S1, row, "uploading",
                                                         platform),
                                           video, platform, now.day),
                           ![t].to_process[frame[t].pos] =
                               IF generate
                               THEN [video EXCEPT
                                       !.title = metadata.title,
                                       !.description = metadata.description,
                                       !.tags = metadata.tags]
                               ELSE video]
               ELSE AfterSingle(t, update_status(S1, row, "failed", platform),
                                FailureResult(video, outcome), called,
                                frame[t].gateway_calls, "none")
    /\ UNCHANGED <<now, uploads_done, status_msg, facebook, groq, call>>

\* _process_single, lines 243-289: gateway upload, link write-back or failure.
_process_single_upload(t) ==
    /\ pc[t] = "upload"
    /\ LET platform == CurrentPlatform(t)
           video == frame[t].to_process[frame[t].pos]
           row == video.row
           local_path == video.filename
       IN \E outcome \in UploadOutcomes(platform, facebook), removal \in RemovalOutcomes :
             LET gateway == IF outcome = "slot_error" THEN frame[t].gateway_calls
                            ELSE Append(frame[t].gateway_calls,
                                        GatewayCall(platform, video,
                                                    frame[t].publish))
             IN
                IF outcome = "ok"
                THEN /\ local_path \in temp_dir
                     /\ uploads_done' =
                            [uploads_done EXCEPT ![platform][now.day] = @ + 1]
                     /\ temp_dir' = remove(temp_dir, local_path, removal)
                     /\ AfterSingle(t,
                            set_youtube_link(sheets, row, VideoLink(platform), platform),
                            SuccessResult(video, VideoLink(platform)),
                            frame[t].generator_calls, gateway, removal)
                ELSE /\ removal = "removed"
                     /\ UNCHANGED <<uploads_done, temp_dir>>
                     /\ AfterSingle(t, update_status(sheets, row, "failed", platform),
                                    FailureResult(video, outcome),
                                    frame[t].generator_calls, gateway, "none")
    /\ UNCHANGED <<now, status_msg, facebook, groq, call>>

\* bot.py: the caller reports the returned result list to the chat.
report_results(t) ==
    /\ pc[t] = "returned"
    /\ pc' = [pc EXCEPT ![t] = "idle"]
    /\ frame' = [frame EXCEPT ![t] = IdleFrame]
    /\ UNCHANGED <<sheets, now, uploads_done, status_msg, temp_dir, facebook, groq, call>>

\* --------------------------------------------------------------- ingestion
add_video(S, filename, drive_link, channel, platform, today) ==
    LET scheduled_date == IF remaining_today(S, platform, today) > 0
                          THEN today ELSE today + 1
        new_row == [timestamp |-> today, filename |-> filename,
                    drive_link |-> drive_link, title |-> "", description |-> "",
                    tags |-> "", status |-> "pending", youtube_link |-> "",
                    scheduled_date |-> scheduled_date, channel |-> channel]
    IN [S EXCEPT ![TargetSheet(platform)] = Append(@, new_row)]

\* Metadata an ingestion handler leaves in the new row: what generate_metadata
\* returned (a JSON answer may carry an empty or blank title), or nothing.
IngestMetadata(filename, response) ==
    IF response = "json"
    THEN {[title |-> title,
           description |-> IF title = "" THEN "" ELSE "Generated description",
           tags |-> IF title = "" THEN "" ELSE "tag1, tag2"] : title \in Titles}
    ELSE {[title |-> "", description |-> "", tags |-> ""],
          generate_metadata(filename, response)}

\* Queue items whose stored title is empty.
Untitled(S) ==
    {<<f, i>> \in {"sheet", "fb_sheet"} \X (1..MaxRows) :
        i <= Len(S[f]) /\ S[f][i].filename # "" /\ strip(S[f][i].title) = ""}

\* bot.py handle_url: enqueue the staged file, then store its metadata.
handle_url ==
    \E platform \in Platforms, filename \in Filenames, drive_link \in DriveLinks,
       removal \in RemovalOutcomes :
      \E metadata \in IngestMetadata(filename, groq) :
        /\ Len(sheets.sheet) + Len(sheets.fb_sheet) < MaxRows
        /\ strip(metadata.title) = ""
              => Cardinality(Untitled(sheets)) < MaxUntitled
        /\ LET S1 == add_video(sheets, filename, drive_link, "default", platform,
                               now.day)
               row == Len(S1[TargetSheet(platform)]) + 1
           IN sheets' = update_metadata(S1, row, metadata.title,
                            metadata.description, metadata.tags, platform)
        /\ temp_dir' = remove(temp_dir \cup {filename}, filename, removal)
        /\ UNCHANGED <<now, pc, frame, uploads_done, status_msg, facebook, groq, call>>

\* bot.py handle_video: enqueue the received file, store its metadata, and when
\* the platform has no quota left today write a scheduled date (the value the
\* handler names "tomorrow" is today's date, and no platform is passed on).
handle_video ==
    \E platform \in Platforms, filename \in Filenames, drive_link \in DriveLinks,
       removal \in RemovalOutcomes :
      \E metadata \in IngestMetadata(filename, groq) :
        /\ Len(sheets.sheet) + Len(sheets.fb_sheet) < MaxRows
        /\ strip(metadata.title) = ""
              => Cardinality(Untitled(sheets)) < MaxUntitled
        /\ temp_dir' = remove(temp_dir \cup {filename}, filename, removal)
        /\ LET S1 == add_video(sheets, filename, drive_link, "default", platform,
                               now.day)
               row == Len(S1[TargetSheet(platform)]) + 1
               S2 == update_metadata(S1, row, metadata.title,
                         metadata.description, metadata.tags, platform)
               tomorrow == now.day
           IN sheets' =
                 IF removal = "denied" THEN S2
                 ELSE IF get_queue_summary(S2, platform, now.day).remaining_today > 0
                 THEN S2
                 ELSE set_scheduled_date(S2, row, tomorrow, "youtube")
        /\ UNCHANGED <<now, pc, frame, uploads_done, status_msg, facebook, groq, call>>

\* ------------------------------------------------------------ status query
NoMessage == [kind |-> "none"]

\* Names config.py defines for the scheduler (lines 79-87).
ConfigNames ==
    {"MAX_UPLOADS_PER_DAY_YOUTUBE", "MAX_UPLOADS_PER_DAY_FACEBOOK",
     "SCHEDULER_INTERVAL_MINUTES", "UPLOAD_SCHEDULE_HOURS"}

\* Variant: the query also pushes the pending YouTube items to tomorrow.
get_status_message_rescheduling ==
    /\ status_msg = NoMessage
    /\ status_msg' = [kind |-> "error", text |-> "AttributeError"]
    /\ sheets' = _schedule_remaining(sheets, now.day + 1, "youtube")
    /\ UNCHANGED <<now, pc, frame, uploads_done, temp_dir, facebook, groq, call>>

\* bot.py cmd_status -> Scheduler.get_status_message: both summaries, the next
\* slot and the window flag are read, then the text is formatted with
\* config.MAX_UPLOADS_PER_DAY; the handler replies with the text or the error.
get_status_message ==
    /\ status_msg = NoMessage
    /\ LET yt_summary == get_queue_summary(sheets, "youtube", now.day)
           fb_summary == get_queue_summary(sheets, "facebook", now.day)
           next_time == get_next_upload_time(now.minute)
           is_upload == is_upload_time(now.minute)
       IN status_msg' =
             IF "MAX_UPLOADS_PER_DAY" \in ConfigNames
             THEN [kind |-> "status", youtube |-> yt_summary,
                   facebook |-> fb_summary, next_time |-> next_time,
                   window_active |-> is_upload]
             ELSE [kind |-> "error", text |-> "AttributeError"]
    /\ UNCHANGED <<sheets, now, pc, frame, uploads_done, temp_dir, facebook, groq, call>>

\* The reply has been sent to the chat.
reply_text ==
    /\ status_msg # NoMessage
    /\ status_msg' = NoMessage
    /\ UNCHANGED <<sheets, now, pc, frame, uploads_done, temp_dir, facebook, groq, call>>

\* ------------------------------------------------------------------- clock
Tick ==
    /\ \E day \in 1..MaxDay, minute \in ClockMinutes :
          /\ \/ day = now.day /\ minute > now.minute
             \/ day = now.day + 1
          /\ now' = [day |-> day, minute |-> minute]
    /\ UNCHANGED <<sheets, pc, frame, uploads_done, status_msg, temp_dir, facebook, groq, call>>

\* ---------------------------------------------------------- periodic job
\* bot.py 1027-1034: the job queue runs scheduled_upload_job again one
\* interval after the run before. FirstRuns is the time of day of the first
\* run: 20:26, so that the runs after it are at 20:31, 20:36, ...
FirstRuns == {1226}

LastRun == 1226 + SCHEDULER_INTERVAL_MINUTES * (MaxRuns - 1)

\* The job has reported its results; the next run is one interval later.
next_run(t) ==
    /\ t = "timer"
    /\ pc[t] = "returned"
    /\ now.minute + SCHEDULER_INTERVAL_MINUTES <= LastRun
    /\ pc' = [pc EXCEPT ![t] = "idle"]
    /\ frame' = [frame EXCEPT ![t] = IdleFrame]
    /\ now' = [now EXCEPT !.minute = @ + SCHEDULER_INTERVAL_MINUTES]
    /\ UNCHANGED <<sheets, uploads_done, status_msg, temp_dir, facebook, groq,
                   call>>

\* ------------------------------------------------- functions on their own
\* A helper of the scheduler called by itself: its name and arguments, and,
\* once it has returned, its result.
NoCall == [fn |-> "none"]

Usp == <<"?", "u", "s", "p", "=", "s", "h", "a", "r", "i", "n", "g">>
OpenQuery == <<"/", "o", "p", "e", "n", "?">>
UcQuery == <<"/", "u", "c", "?">>
Export == <<"&", "e", "x", "p", "o", "r", "t", "=", "d", "o", "w", "n", "l", "o", "a", "d">>

\* Links the identifier extraction is tried on: a prefix, the part that
\* announces the identifier, the identifier, and a rest.
TestLinks ==
    {prefix \o marker \o id \o rest :
        prefix \in {<<>>, DriveHost, <<" ">>},
        marker \in {<<>>, FileD, <<"/", "d", "/">>, OpenQuery \o IdEq,
                    UcQuery \o IdEq},
        id \in {<<>>, ABC123, <<" ">>},
        rest \in {<<>>, View, Usp, View \o Usp, Export}}

extract_drive_id_call ==
    /\ call.fn = "_extract_drive_id"
    /\ "file_id" \notin DOMAIN call
    /\ call' = [fn |-> call.fn, drive_link |-> call.drive_link,
                file_id |-> _extract_drive_id(call.drive_link)]
    /\ UNCHANGED <<sheets, now, pc, frame, uploads_done, status_msg, temp_dir,
                   facebook, groq>>

\* The publish instant of a YouTube item, lines 221-241 of _process_single.
\* Instants are minutes counted from the start of day 0.
MinimumLead == 15
SubstituteLead == 20

Instant(date, minutes) == date * MinutesPerDay + minutes

\* What count_uploaded_for_date may answer: the number of uploaded items of
\* one date, anything from none to more than there are slots.
UploadedForDate == 0..(MaxRows + 1)

\* Times of day the publish instant is computed at: a quarter of an hour
\* before a slot, a minute either side of that, and the window's edge.
PublishClock == {164, 165, 166, 1229, 1231, 1244, 1245, 1246, 1425}

\* Variant: the substitute is the minimum lead itself.
LeadTime_substitutes_minimum(publish_local, now_instant) ==
    IF publish_local <= now_instant + MinimumLead
    THEN now_instant + MinimumLead - 1
    ELSE publish_local

\* Lines 237-239.
LeadTime(publish_local, now_instant) ==
    IF publish_local <= now_instant + MinimumLead
    THEN now_instant + SubstituteLead
    ELSE publish_local

\* Lines 231-235: the slot's time of day on the scheduled date; indexing the
\* list outside 0..len-1 raises IndexError.
publish_at_call ==
    /\ call.fn = "publish_at"
    /\ "slot_index" \notin DOMAIN call
    /\ LET scheduled_date_str == ScheduledDateStr(call.scheduled_date,
                                                  call.today)
           slot_index == SlotIndex(call.uploaded)
           now_instant == Instant(call.today, call.minute)
       IN call' =
            IF slot_index + 1 \in DOMAIN UPLOAD_SCHEDULE_HOURS
            THEN LET time_str == UPLOAD_SCHEDULE_HOURS[slot_index + 1]
                     publish_local == Instant(scheduled_date_str,
                                              ScheduledMinutes(time_str))
                 IN [fn |-> call.fn, scheduled_date |-> call.scheduled_date,
                     uploaded |-> call.uploaded, today |-> call.today,
                     minute |-> call.minute, slot_index |-> slot_index,
                     computed |-> publish_local,
                     publish_at |-> LeadTime(publish_local, now_instant)]
            ELSE [fn |-> call.fn, scheduled_date |-> call.scheduled_date,
                  uploaded |-> call.uploaded, today |-> call.today,
                  minute |-> call.minute, slot_index |-> slot_index,
                  error |-> "IndexError"]
    /\ UNCHANGED <<sheets, now, pc, frame, uploads_done, status_msg, temp_dir,
                   facebook, groq>>

\* Slot strings the window predicate is tried on: the configured ones, a slot
\* past the end of the day, and strings that do not split into two integers.
TestSlots ==
    {<<"2", "1", ":", "0", "0">>, <<"0", "0", ":", "0", "0">>,
     <<"0", "3", ":", "0", "0">>, <<"2", "5", ":", "0", "0">>,
     <<"2", "1", "0", "0">>, <<"2", "1", ":", "x", "x">>, <<>>,
     <<"2", "1", ":", "0", "0", ":", "0", "0">>}

TestSchedules ==
    {<<a>> : a \in TestSlots} \cup {<<a, b>> : a, b \in TestSlots}

\* Times of day the predicate is asked at: midnight, the edges of the
\* windows of 00:00, 03:00 and 21:00, and times far from every slot.
TestMinutes ==
    {0, 15, 30, 31, 60, 90, 91, 149, 150, 210, 211, 700, 1229, 1230, 1231,
     1290, 1291, 1409, 1410, 1425, 1439}

is_upload_time_call ==
    /\ call.fn = "is_upload_time"
    /\ "result" \notin DOMAIN call
    /\ call' = [fn |-> call.fn, schedule |-> call.schedule,
                current_minutes |-> call.current_minutes,
                result |-> is_upload_time_for(call.schedule,
                                              call.current_minutes)]
    /\ UNCHANGED <<sheets, now, pc, frame, uploads_done, status_msg, temp_dir,
                   facebook, groq>>

\* ----------------------------------------------------------- specification
RowNumbers == 2..(MaxRows + 1)

Init ==
    /\ sheets = [sheet |-> <<>>, fb_sheet |-> <<>>]
    /\ now \in [day : {1}, minute : ClockMinutes]
    /\ pc = [t \in Threads |-> "idle"]
    /\ frame = [t \in Threads |-> IdleFrame]
    /\ uploads_done = [p \in Platforms |-> [d \in 1..MaxDay |-> 0]]
    /\ status_msg = NoMessage
    /\ temp_dir = {}
    /\ facebook = [access_token |-> "EAAB-token", page_id |-> "1234567890"]
    /\ groq = "json"
    /\ call = NoCall

AllIdle == \A t \in Threads : pc[t] = "idle"

CycleStep ==
    \E t \in Threads :
        \/ _process_platform_queue(t)
        \/ _process_single_prepare(t)
        \/ _process_single_upload(t)
        \/ report_results(t)

\* Cycles and handlers run one at a time.
Serial == AllIdle /\ status_msg = NoMessage

StartSerial == Serial /\ \E t \in Threads : process_queue(t) \/ force_upload(t)

Next ==
    \/ StartSerial
    \/ CycleStep
    \/ Serial /\ handle_url
    \/ Serial /\ handle_video
    \/ Serial /\ Tick
    \/ Serial /\ get_status_message
    \/ reply_text

Spec == Init /\ [][Next]_vars

\* The bot's actual scheduling: the job and the command each await their own
\* worker thread, so a periodic and a force cycle may overlap.
StartAny == \E t \in Threads : process_queue(t) \/ force_upload(t)

NextOverlap == StartAny \/ CycleStep \/ (AllIdle /\ handle_url)

SpecOverlap == Init /\ [][NextOverlap]_vars

\* The bot started with the Facebook page credentials missing from .env
\* (config.py 75-76 default both to the empty string).
FacebookCredentials ==
    [access_token : {"", "EAAB-token"}, page_id : {"", "1234567890"}]

InitNoCredentials ==
    /\ sheets = [sheet |-> <<>>, fb_sheet |-> <<>>]
    /\ now \in [day : {1}, minute : ClockMinutes]
    /\ pc = [t \in Threads |-> "idle"]
    /\ frame = [t \in Threads |-> IdleFrame]
    /\ uploads_done = [p \in Platforms |-> [d \in 1..MaxDay |-> 0]]
    /\ status_msg = NoMessage
    /\ temp_dir = {}
    /\ facebook \in {fb \in FacebookCredentials : ~is_configured(fb)}
    /\ groq = "json"
    /\ call = NoCall

SpecNoCredentials == InitNoCredentials /\ [][Next]_vars

\* The bot running while the Metadata Generator is of no use: every answer is
\* unparseable, or every call fails.
InitGeneratorFails ==
    /\ sheets = [sheet |-> <<>>, fb_sheet |-> <<>>]
    /\ now \in [day : {1}, minute : ClockMinutes]
    /\ pc = [t \in Threads |-> "idle"]
    /\ frame = [t \in Threads |-> IdleFrame]
    /\ uploads_done = [p \in Platforms |-> [d \in 1..MaxDay |-> 0]]
    /\ status_msg = NoMessage
    /\ temp_dir = {}
    /\ facebook = [access_token |-> "EAAB-token", page_id |-> "1234567890"]
    /\ groq \in Responses \ {"json"}
    /\ call = NoCall

SpecGeneratorFails == InitGeneratorFails /\ [][Next]_vars

\* The store, the clock and the services before anything has happened.
Pristine ==
    /\ sheets = [sheet |-> <<>>, fb_sheet |-> <<>>]
    /\ now \in [day : {1}, minute : ClockMinutes]
    /\ pc = [t \in Threads |-> "idle"]
    /\ frame = [t \in Threads |-> IdleFrame]
    /\ uploads_done = [p \in Platforms |-> [d \in 1..MaxDay |-> 0]]
    /\ status_msg = NoMessage
    /\ temp_dir = {}
    /\ facebook = [access_token |-> "EAAB-token", page_id |-> "1234567890"]
    /\ groq = "json"

\* _extract_drive_id applied to each of the test links.
InitExtract ==
    /\ Pristine
    /\ call \in {[fn |-> "_extract_drive_id", drive_link |-> link] :
                    link \in TestLinks}

NextExtract == extract_drive_id_call

SpecExtract == InitExtract /\ [][NextExtract]_vars


\* The publish instant computed for every scheduled date, count of uploaded
\* items, day and time of day.
InitPublish ==
    /\ Pristine
    /\ call \in [fn : {"publish_at"},
                 scheduled_date : {NoDate} \cup (1..(MaxDay + 1)),
                 uploaded : UploadedForDate,
                 today : 1..MaxDay,
                 minute : PublishClock]

NextPublish == publish_at_call

SpecPublish == InitPublish /\ [][NextPublish]_vars

\* The periodic job alone, run after run on one evening, with files coming
\* in between the runs.
InitPeriodic ==
    /\ sheets = [sheet |-> <<>>, fb_sheet |-> <<>>]
    /\ now \in [day : {1}, minute : FirstRuns]
    /\ pc = [t \in Threads |-> "idle"]
    /\ frame = [t \in Threads |-> IdleFrame]
    /\ uploads_done = [p \in Platforms |-> [d \in 1..MaxDay |-> 0]]
    /\ status_msg = NoMessage
    /\ temp_dir = {}
    /\ facebook = [access_token |-> "EAAB-token", page_id |-> "1234567890"]
    /\ groq = "json"
    /\ call = NoCall

JobStep ==
    \E t \in Threads :
        \/ _process_platform_queue(t)
        \/ _process_single_prepare(t)
        \/ _process_single_upload(t)
        \/ next_run(t)

NextPeriodic ==
    \/ Serial /\ process_queue("timer")
    \/ JobStep
    \/ Serial /\ handle_url

SpecPeriodic == InitPeriodic /\ [][NextPeriodic]_vars

\* is_upload_time asked for every test schedule at every test time of day.
InitWindow ==
    /\ Pristine
    /\ call \in [fn : {"is_upload_time"}, schedule : TestSchedules,
                 current_minutes : TestMinutes]

NextWindow == is_upload_time_call

SpecWindow == InitWindow /\ [][NextWindow]_vars

\* ------------------------------------------------------------------ claims
SheetNames == {"sheet", "fb_sheet"}
Quiescent == \A t \in Threads : pc[t] \in {"idle", "returned"}
ProcessingItem(t) == pc[t] \in {"process_single", "upload"}
Stepped(t) == pc'[t] # pc[t] \/ frame'[t] # frame[t]

\* C1: for each platform, after every cycle the store's count of items
\* uploaded today does not exceed the platform's daily quota.
C1_QuotaMonotonicity ==
    Quiescent =>
        \A p \in Platforms :
            count_uploads_today(sheets, p, now.day) <= MaxUploads(p)

\* C2: for each platform and calendar day, the number of successful uploads
\* made on that day does not exceed the platform's daily limit.
C2_DailyUploadsWithinLimit ==
    \A p \in Platforms : \A d \in 1..MaxDay : uploads_done[p][d] <= MaxUploads(p)

\* C3: an item whose status is uploaded or failed is not changed in any
\* field by any later step of any cycle.
C3_TerminalImmutable ==
    [][\A f \in SheetNames : \A i \in 1..Len(sheets[f]) :
          sheets[f][i].status \in {"uploaded", "failed"}
              => sheets'[f][i] = sheets[f][i]]_vars

\* Gateway invocations for an item by the cycles now in progress or returned.
GatewayCallsBy(t, p, r) ==
    Cardinality({k \in 1..Len(frame[t].gateway_calls) :
        /\ frame[t].gateway_calls[k].platform = p
        /\ frame[t].gateway_calls[k].row = r})
GatewayCalls(p, r) == GatewayCallsBy("timer", p, r) + GatewayCallsBy("cmd", p, r)

\* C4: the Upload Gateway is invoked at most once per queue item, in every
\* interleaving of a periodic and a force cycle.
C4_GatewayAtMostOnce ==
    \A p \in Platforms : \A r \in RowNumbers :
        GatewayCalls(p, r) <= 1

\* C5: at most one cycle is processing the queue of a given platform at any
\* moment.
C5_OneCyclePerPlatform ==
    \A t1, t2 \in Threads :
        (t1 # t2 /\ ProcessingItem(t1) /\ ProcessingItem(t2))
            => CurrentPlatform(t1) # CurrentPlatform(t2)

\* C6: when a periodic and a force cycle overlap, the uploads made for a
\* platform today still do not exceed its daily quota.
C6_NoDoubleSpend ==
    \A p \in Platforms : uploads_done[p][now.day] <= MaxUploads(p)


\* The claims' own reading of the store and of the configuration.
SheetFor(p) == IF p = "facebook" THEN sheets.fb_sheet ELSE sheets.sheet
DailyQuota(p) ==
    IF p = "youtube" THEN MAX_UPLOADS_PER_DAY_YOUTUBE
    ELSE MAX_UPLOADS_PER_DAY_FACEBOOK
UploadedToday(p) ==
    Cardinality({i \in 1..Len(SheetFor(p)) :
        SheetFor(p)[i].status = "uploaded" /\ SheetFor(p)[i].timestamp = now.day})
QuotaLeft(p) == DailyQuota(p) - UploadedToday(p)
PendingRows(p) ==
    {i \in 1..Len(SheetFor(p)) : SheetFor(p)[i].status = "pending"}
EligibleRows(p) ==
    PendingRows(p) \cup
    {i \in 1..Len(SheetFor(p)) :
        SheetFor(p)[i].status = "scheduled"
            /\ SheetFor(p)[i].scheduled_date = now.day}
SlotMinutes == {21 * 60, 0, 3 * 60}
WithinTolerance(m) ==
    \E slot \in SlotMinutes :
        \/ Abs(m - slot) <= 30
        \/ 1440 - Abs(m - slot) <= 30

C8_ForceBypassesOnlyWindow ==
    [][\A t \in Threads :
        /\ (pc[t] = "idle" /\ pc'[t] # "idle" /\ frame'[t].force)
              => pc'[t] = "platform_queue"
        /\ (pc[t] = "platform_queue" /\ Stepped(t) /\ frame[t].force) =>
              IF QuotaLeft(CurrentPlatform(t)) <= 0
              THEN /\ pc'[t] # "process_single"
                   /\ frame'[t].gateway_calls = frame[t].gateway_calls
                   /\ uploads_done' = uploads_done
              ELSE EligibleRows(CurrentPlatform(t)) # {}
                       => pc'[t] = "process_single"]_vars

C8_Witness ==
    /\ pc["cmd"] = "platform_queue"
    /\ frame["cmd"].force
    /\ frame["cmd"].platform_idx = 2
    /\ frame["cmd"].results = <<>>
    /\ ~WithinTolerance(now.minute)
    /\ QuotaLeft("youtube") <= 0
    /\ \E i \in 1..Len(sheets.sheet) : sheets.sheet[i].status = "scheduled"

\* C9: when a cycle past the window gate finds a platform's remaining quota
\* <= 0, it uploads nothing for that platform and every pending item of the
\* platform becomes scheduled for tomorrow.
C9_QuotaExhaustedReschedule ==
    [][\A t \in Threads :
        (pc[t] = "platform_queue" /\ Stepped(t)
            /\ QuotaLeft(CurrentPlatform(t)) <= 0) =>
           /\ pc'[t] # "process_single"
           /\ frame'[t].gateway_calls = frame[t].gateway_calls
           /\ uploads_done' = uploads_done
           /\ \A i \in PendingRows(CurrentPlatform(t)) :
                 LET after == sheets'[TargetSheet(CurrentPlatform(t))][i]
                 IN after.status = "scheduled"
                        /\ after.scheduled_date = now.day + 1]_vars

C9_Witness ==
    /\ pc["timer"] = "platform_queue"
    /\ frame["timer"].platform_idx = 2
    /\ frame["timer"].results = <<>>
    /\ QuotaLeft("youtube") <= 0
    /\ \E i \in 1..Len(sheets.sheet) :
          /\ sheets.sheet[i].status = "scheduled"
          /\ sheets.sheet[i].scheduled_date = now.day + 1
          /\ sheets.sheet[i].timestamp = now.day

\* C10: within one cycle pending items are processed in creation order: the
\* pending candidates are taken by increasing row, and while a pending
\* candidate is being processed no earlier row of that platform is still
\* pending.
C10_FifoPending ==
    \A t \in Threads :
        /\ \A i, j \in 1..Len(frame[t].to_process) :
              (i < j /\ frame[t].to_process[i].status = "pending"
                     /\ frame[t].to_process[j].status = "pending")
                  => frame[t].to_process[i].row < frame[t].to_process[j].row
        /\ ProcessingItem(t) =>
              LET video == frame[t].to_process[frame[t].pos]
              IN video.status = "pending" =>
                    \A i \in PendingRows(CurrentPlatform(t)) : i + 1 >= video.row

C10_Witness ==
    \E t \in Threads :
        /\ pc[t] = "upload"
        /\ frame[t].pos = 2
        /\ frame[t].to_process[1].status = "pending"
        /\ frame[t].to_process[2].status = "pending"
        /\ frame[t].to_process[1].row < frame[t].to_process[2].row

DueRows(p) ==
    {i \in 1..Len(SheetFor(p)) :
        SheetFor(p)[i].status = "scheduled"
            /\ SheetFor(p)[i].scheduled_date = now.day}

CurrentVideo(t) == frame[t].to_process[frame[t].pos]
StoredRow(S, t) == S[TargetSheet(CurrentPlatform(t))][CurrentVideo(t).row - 1]
MetadataKept(t) ==
    /\ frame'[t].generator_calls = frame[t].generator_calls
    /\ StoredRow(sheets', t).title = StoredRow(sheets, t).title
    /\ StoredRow(sheets', t).description = StoredRow(sheets, t).description
    /\ StoredRow(sheets', t).tags = StoredRow(sheets, t).tags
BlankTitles == {"", " "}

\* C12, as claimed: processing an item whose title is non-empty never invokes
\* the Metadata Generator and never overwrites its title, description or tags.
C12_NonEmptyTitleKept ==
    [][\A t \in Threads :
        (pc[t] = "process_single" /\ Stepped(t) /\ CurrentVideo(t).title # "")
            => MetadataKept(t)]_vars

\* C12, amended: processing an item whose title, as the cycle read it, is
\* not blank (non-empty after stripping whitespace) never invokes the Metadata
\* Generator and never overwrites its title, description or tags.
C12_TitledItemKept ==
    [][\A t \in Threads :
        (pc[t] = "process_single" /\ Stepped(t)
            /\ CurrentVideo(t).title \notin BlankTitles)
            => MetadataKept(t)]_vars

C12_Witness ==
    \E t \in Threads :
        /\ pc[t] = "upload"
        /\ Len(frame[t].attempted) = 1
        /\ frame[t].generator_calls = 0
        /\ StoredRow(sheets, t).title \notin BlankTitles
        /\ StoredRow(sheets, t).status = "uploading"

\* C13: in every reachable store state, every item whose status is uploaded
\* has a non-empty published link, in both platform queues.
C13_UploadedHasLink ==
    \A f \in SheetNames : \A i \in 1..Len(sheets[f]) :
        sheets[f][i].status = "uploaded" => sheets[f][i].youtube_link # ""

\* C14: in every reachable store state, every item whose status is scheduled
\* has a non-empty scheduled_date.
C14_ScheduledHasDate ==
    \A f \in SheetNames : \A i \in 1..Len(sheets[f]) :
        sheets[f][i].status = "scheduled" => sheets[f][i].scheduled_date # NoDate

C14_Witness ==
    /\ \E i \in 1..Len(sheets.sheet) :
          /\ sheets.sheet[i].status = "scheduled"
          /\ sheets.sheet[i].scheduled_date = now.day
          /\ sheets.sheet[i].timestamp = now.day
    /\ \E i \in 1..Len(sheets.sheet) :
          /\ sheets.sheet[i].status = "scheduled"
          /\ sheets.sheet[i].scheduled_date = now.day + 1

\* A step of cycle t that ends the processing of an item with a failure.
Failing(t) ==
    /\ ProcessingItem(t)
    /\ Len(frame'[t].results) = Len(frame[t].results) + 1
    /\ ~frame'[t].results[Len(frame'[t].results)].success

\* C15: a failure while processing one item does not abort the cycle: the
\* failure is added to the results gathered so far, the next candidate within
\* the limit is attempted, and after the last one the cycle goes on to the
\* next platform or returns its results.
C15_FailureDoesNotAbort ==
    [][\A t \in Threads :
        Failing(t) =>
            /\ SubSeq(frame'[t].results, 1, Len(frame[t].results)) = frame[t].results
            /\ IF frame[t].pos < Len(frame[t].to_process)
               THEN /\ pc'[t] = "process_single"
                    /\ frame'[t].to_process = frame[t].to_process
                    /\ frame'[t].pos = frame[t].pos + 1
                    /\ frame'[t].attempted[Len(frame'[t].attempted)].row =
                           frame[t].to_process[frame[t].pos + 1].row
               ELSE IF frame[t].platform_idx < Len(PlatformOrder)
               THEN /\ pc'[t] = "platform_queue"
                    /\ frame'[t].platform_idx = frame[t].platform_idx + 1
               ELSE pc'[t] = "returned"]_vars

C15_Witness ==
    \E t \in Threads :
        /\ pc[t] = "upload"
        /\ frame[t].pos = 2
        /\ Len(frame[t].results) = 1
        /\ ~frame[t].results[1].success
        /\ Len(frame[t].attempted) = 2

\* C16: when a cycle ends, every item one of whose steps failed in it has
\* status failed, was attempted once only in the cycle, and has a result
\* entry with success = false and the failure reason.
C16_FailedWhenCycleEnds ==
    \A t \in Threads :
        pc[t] = "returned" =>
            \A k \in 1..Len(frame[t].results) :
                ~frame[t].results[k].success =>
                    LET item == frame[t].attempted[k]
                    IN /\ frame[t].results[k].row = item.row
                       /\ frame[t].results[k].error # ""
                       /\ \A j \in 1..Len(frame[t].attempted) :
                              j # k => frame[t].attempted[j] # item
                       /\ sheets[TargetSheet(item.platform)][item.row - 1].status
                              = "failed"

\* C17: the status query changes no item and no store content, whatever the
\* queue state and the time of day; it changes nothing of the running cycles
\* either.
C17_StatusQueryReadOnly ==
    [][(status_msg = NoMessage /\ status_msg' # NoMessage) =>
          /\ sheets' = sheets
          /\ frame' = frame
          /\ pc' = pc
          /\ uploads_done' = uploads_done]_vars

C17_Witness ==
    /\ status_msg # NoMessage
    /\ PendingRows("youtube") # {}
    /\ \E i \in 1..Len(sheets.fb_sheet) : sheets.fb_sheet[i].status = "uploading"
    /\ ~WithinTolerance(now.minute)

OtherPlatform(p) == IF p = "youtube" THEN "facebook" ELSE "youtube"

\* C18: a step of a cycle that is processing one platform's queue changes no
\* item of the other platform's queue, and so not the other platform's count
\* of items uploaded today.
C18_PlatformsIndependent ==
    [][\A t \in Threads :
        (pc[t] \in {"platform_queue", "process_single", "upload"} /\ Stepped(t))
            => LET other == OtherPlatform(CurrentPlatform(t))
               IN /\ sheets'[TargetSheet(other)] = sheets[TargetSheet(other)]
                  /\ count_uploads_today(sheets', other, now.day)
                         = count_uploads_today(sheets, other, now.day)]_vars

\* The step with which the processing of the current item of cycle t ends.
ItemEnds(t) ==
    /\ ProcessingItem(t)
    /\ Len(frame'[t].results) = Len(frame[t].results) + 1

\* C19: when the processing of one item ends, by success or by a failed step,
\* its staged temporary file is gone unless the removal was denied, and a
\* denied removal leaves a successful result successful.
C19_TempFileRemoved ==
    [][\A t \in Threads :
        ItemEnds(t) =>
            /\ \/ CurrentVideo(t).filename \notin temp_dir'
               \/ frame'[t].removal = "denied"
            /\ frame'[t].removal = "denied"
                   => frame'[t].results[Len(frame'[t].results)].success]_vars

\* Rows of platform p that a cycle running on day d would read as candidates.
SelectedOn(p, d) ==
    LET to_process == eligible_candidates(sheets, d, p)
    IN {to_process[k].row : k \in 1..Len(to_process)}

\* C20 (the part about selection): every item that is pending or scheduled is
\* among the candidates of a cycle of today or of a later day; a scheduled
\* item whose scheduled_date has passed is therefore still selected.
C20_RemainsSelectable ==
    \A p \in Platforms :
        \A i \in 1..Len(sheets[TargetSheet(p)]) :
            sheets[TargetSheet(p)][i].status \in {"pending", "scheduled"}
                => \E d \in now.day..(MaxDay + 1) : (i + 1) \in SelectedOn(p, d)

\* Number of items of platform p that cycle t has handed to _process_single.
AttemptsOf(t, p) ==
    Cardinality({k \in 1..Len(frame[t].attempted) :
                    frame[t].attempted[k].platform = p})

AttemptedItem(t, k) ==
    sheets[TargetSheet(frame[t].attempted[k].platform)]
          [frame[t].attempted[k].row - 1]

\* C22: a returning cycle holds one result per attempted item, in processing
\* order, and nothing else (so no result for an item that was only scheduled);
\* a result is a success carrying a link exactly when the item is stored in
\* its own platform's queue as uploaded with that link.
C22_ResultsMatchStore ==
    \A t \in Threads :
        pc[t] = "returned" =>
            /\ Len(frame[t].results) = Len(frame[t].attempted)
            /\ \A k \in 1..Len(frame[t].results) :
                  LET result == frame[t].results[k]
                      item == AttemptedItem(t, k)
                  IN /\ result.row = frame[t].attempted[k].row
                     /\ result.success =>
                            /\ item.status = "uploaded"
                            /\ item.youtube_link = result.youtube_link
                            /\ result.youtube_link # ""
                     /\ ~result.success =>
                            ~(item.status = "uploaded" /\ item.youtube_link # "")

\* C23: in a run with the Facebook credentials missing, no Facebook item
\* changes status (none becomes uploading or failed) and no cycle holds a
\* per-item result for a Facebook item.
C23_NoProcessingWithoutCredentials ==
    ~is_configured(facebook) =>
        /\ \A i \in 1..Len(sheets.fb_sheet) :
              sheets.fb_sheet[i].status \notin {"uploading", "failed"}
        /\ \A t \in Threads : \A k \in 1..Len(frame[t].results) :
              frame[t].attempted[k].platform # "facebook"

\* C24: when the Metadata Generator fails or answers with text that cannot be
\* parsed, processing an item without a title stores the fallback metadata
\* derived from the filename and goes on: the item reaches the upload step,
\* or fails on the download, never on the metadata.
C24_FallbackMetadata ==
    [][\A t \in Threads :
        (pc[t] = "process_single" /\ Stepped(t) /\ groq # "json"
            /\ needs_metadata(CurrentVideo(t)))
          => LET fallback == FallbackMetadata(CurrentVideo(t).filename)
                 stored == StoredRow(sheets', t)
             IN /\ frame'[t].generator_calls = frame[t].generator_calls + 1
                /\ stored.title = fallback.title
                /\ stored.description = fallback.description
                /\ stored.tags = fallback.tags
                /\ \/ pc'[t] = "upload" /\ stored.status = "uploading"
                   \/ /\ ItemEnds(t)
                      /\ frame'[t].results[Len(frame'[t].results)].error
                            = "download_error"]_vars

\* An item that got its metadata from the fallback has been uploaded.
C24_Witness ==
    /\ groq # "json"
    /\ \E t \in Threads :
          /\ frame[t].generator_calls = 1
          /\ Len(frame[t].results) = 1
          /\ frame[t].results[1].success
          /\ \E p \in Platforms :
                /\ frame[t].results[1].row - 1 <= Len(sheets[TargetSheet(p)])
                /\ LET item ==
                          sheets[TargetSheet(p)][frame[t].results[1].row - 1]
                   IN /\ item.title = FallbackMetadata(item.filename).title
                      /\ item.youtube_link # ""

\* C25: no step deletes an item or changes an item's row number, creation
\* timestamp, filename or source link: every row present before a step is
\* present after it, at the same position, with those fields as they were.
C25_IdentityFieldsKept ==
    [][\A f \in SheetNames : \A i \in 1..Len(sheets[f]) :
          /\ i <= Len(sheets'[f])
          /\ sheets'[f][i].timestamp = sheets[f][i].timestamp
          /\ sheets'[f][i].filename = sheets[f][i].filename
          /\ sheets'[f][i].drive_link = sheets[f][i].drive_link]_vars

\* A cycle has generated metadata for one item and uploaded it, has marked
\* another one failed, and the store holds a scheduled item as well.
C25_Witness ==
    /\ \E t \in Threads : pc[t] = "returned" /\ frame[t].generator_calls > 0
    /\ \E f \in SheetNames : \E i, j, k \in 1..Len(sheets[f]) :
          /\ sheets[f][i].status = "uploaded" /\ sheets[f][i].youtube_link # ""
          /\ sheets[f][j].status = "failed" /\ sheets[f][j].filename # ""
          /\ sheets[f][k].status = "scheduled" /\ sheets[f][k].filename # ""

Returned(fn) == call.fn = fn /\ "file_id" \in DOMAIN call

\* The three accepted link shapes carrying the identifier ABC123.
AcceptedLinks ==
    {DriveHost \o FileD \o ABC123 \o rest : rest \in {<<>>, View, Usp, View \o Usp}}
        \cup {DriveHost \o query \o IdEq \o ABC123 \o rest :
                 query \in {OpenQuery, UcQuery}, rest \in {<<>>, Export}}
        \cup {ABC123}

NoIdentifier(link) ==
    LET EndsAt(k, stops) == k > Len(link) \/ link[k] \in stops
    IN IF Contains(link, FileD)
       THEN EndsAt(Find(link, FileD) + Len(FileD), {"/", "?"})
       ELSE IF Contains(link, IdEq)
       THEN \/ EndsAt(Find(link, IdEq) + Len(IdEq), {"&"})
            \/ Find(SubSeq(link, Find(link, IdEq) + Len(IdEq), Len(link)), IdEq) = 1
       ELSE \A k \in 1..Len(link) : link[k] \in Whitespace

PublishReturned ==
    call.fn = "publish_at" /\ "slot_index" \in DOMAIN call

NowInstant == Instant(call.today, call.minute)

\* C27: the slot index used to compute publish_at is always a valid index of
\* the configured slot list; when the number of already-uploaded items for
\* the scheduled date equals or exceeds the length of the list, the last
\* configured slot is used and no out-of-range index.
C27_SlotIndexValid ==
    PublishReturned =>
        /\ "error" \notin DOMAIN call
        /\ call.slot_index \in 0..(Len(UPLOAD_SCHEDULE_HOURS) - 1)
        /\ call.uploaded >= Len(UPLOAD_SCHEDULE_HOURS) =>
              /\ call.slot_index = Len(UPLOAD_SCHEDULE_HOURS) - 1
              /\ call.computed =
                    Instant(ScheduledDateStr(call.scheduled_date, call.today),
                            ScheduledMinutes(
                                UPLOAD_SCHEDULE_HOURS[Len(UPLOAD_SCHEDULE_HOURS)]))

C27_Witness ==
    /\ PublishReturned
    /\ call.uploaded > Len(UPLOAD_SCHEDULE_HOURS)
    /\ call.slot_index = Len(UPLOAD_SCHEDULE_HOURS) - 1

PendingPushed(S, S2, platform, date_str) ==
    LET ws == S[TargetSheet(platform)]
        ws2 == S2[TargetSheet(platform)]
    IN \A i \in 1..Len(ws) :
          ws[i].status = "pending" =>
              /\ i <= Len(ws2)
              /\ ws2[i].status = "scheduled"
              /\ ws2[i].scheduled_date = date_str

Exhausted(platform) ==
    remaining_quota(platform,
                    count_uploads_today(sheets, platform, now.day)) <= 0

\* A cycle that reaches a platform whose quota is used up schedules the
\* platform's pending rows for tomorrow.
QuotaGatePushes(t) ==
    pc[t] = "platform_queue" /\ Stepped(t) /\ Exhausted(CurrentPlatform(t)) =>
        PendingPushed(sheets, sheets', CurrentPlatform(t), now.day + 1)

InWindowOf(time_str, current_minutes) ==
    SlotDiff(current_minutes, ScheduledMinutes(time_str)) <= Tolerance

\* C30: the periodic cycles that fall inside the tolerance window of one
\* slot together process at most one facebook item. (Under SpecPeriodic all
\* runs are periodic, on day 1, and those inside a window are inside the
\* window of the first slot.)
C30_OnePerWindow ==
    InWindowOf(UPLOAD_SCHEDULE_HOURS[1], now.minute) =>
        uploads_done["facebook"][1] <= 1

NoPending(S, platform) ==
    \A i \in 1..Len(S[TargetSheet(platform)]) :
        S[TargetSheet(platform)][i].status # "pending"

\* The step of cycle t with which an item ends in success and the platform's
\* remaining quota reaches 0.
QuotaSpent(t) ==
    /\ ItemEnds(t)
    /\ frame'[t].results[Len(frame'[t].results)].success
    /\ frame[t].remaining - 1 <= 0

\* C31: after a cycle whose processing loop brings a platform's remaining
\* quota to 0, no item of that platform is left pending; every item still
\* pending after the loop is scheduled with tomorrow's date.
C31_NoPendingWhenQuotaSpent ==
    [][\A t \in Threads :
          QuotaSpent(t) =>
              /\ NoPending(sheets', CurrentPlatform(t))
              /\ PendingPushed(sheets, sheets', CurrentPlatform(t), now.day + 1)
      ]_vars

\* A cycle has just spent the YouTube quota and moved on to facebook, and a
\* YouTube row is scheduled for tomorrow.
C31_Witness ==
    \E t \in Threads :
        /\ pc[t] = "platform_queue"
        /\ frame[t].platform_idx = 2
        /\ Len(frame[t].results) = MAX_UPLOADS_PER_DAY_YOUTUBE
        /\ \A k \in 1..Len(frame[t].results) : frame[t].results[k].success
        /\ NoPending(sheets, "youtube")
        /\ \E i \in 1..Len(sheets.sheet) :
              /\ sheets.sheet[i].status = "scheduled"
              /\ sheets.sheet[i].scheduled_date = now.day + 1

\* The stored row of the current item of cycle t carries this metadata.
StoredMetadataIs(S, t, metadata) ==
    /\ StoredRow(S, t).title = metadata.title
    /\ StoredRow(S, t).description = metadata.description
    /\ StoredRow(S, t).tags = metadata.tags

\* C32: when an item with empty metadata is processed, the generated title,
\* description and tags are stored before the download, the uploading mark
\* and the upload, and a failure of any of these leaves them stored.
C32_MetadataSurvivesFailure ==
    [][\A t \in Threads :
          /\ pc[t] = "process_single" /\ Stepped(t)
                /\ needs_metadata(CurrentVideo(t))
                => StoredMetadataIs(sheets', t,
                       generate_metadata(CurrentVideo(t).filename, groq))
          /\ pc[t] = "upload" /\ ItemEnds(t)
                /\ ~frame'[t].results[Len(frame'[t].results)].success
                => /\ StoredMetadataIs(sheets', t, StoredRow(sheets, t))
                   /\ StoredMetadataIs(sheets', t, CurrentVideo(t))
      ]_vars

\* The one item a cycle has processed had its metadata generated, its upload
\* failed, and the generated metadata are in its row.
C32_Witness ==
    \E t \in Threads :
        /\ Len(frame[t].results) = 1
        /\ frame[t].generator_calls = 1
        /\ ~frame[t].results[1].success
        /\ frame[t].results[1].error = "upload_error"
        /\ LET item == frame[t].attempted[1]
               stored == sheets[TargetSheet(item.platform)][item.row - 1]
           IN /\ stored.status = "failed"
              /\ stored.title = generate_metadata(stored.filename, groq).title
              /\ stored.tags = generate_metadata(stored.filename, groq).tags

\* C33: uploading is a transient status; when a cycle has returned (and no
\* other cycle is under way) no item of either platform has status uploading.
C33_UploadingIsTransient ==
    Quiescent =>
        \A f \in SheetNames :
            \A i \in 1..Len(sheets[f]) : sheets[f][i].status # "uploading"

\* Some cycle takes a step.
CycleActs == \E t \in Threads : pc[t] # "idle" /\ Stepped(t)

\* C34: a scheduled item is processed only by a cycle running on its
\* scheduled_date; no step of a periodic or force cycle uploads, fails or
\* otherwise changes a scheduled item on a day before its scheduled_date.
C34_ScheduledUntouchedBeforeDate ==
    [][CycleActs =>
          \A f \in SheetNames :
              \A i \in 1..Len(sheets[f]) :
                  sheets[f][i].status = "scheduled"
                      /\ sheets[f][i].scheduled_date > now.day
                      => sheets'[f][i] = sheets[f][i]
      ]_vars

\* The YouTube gateway calls of cycle t that ended in an upload.
SlotsAssigned(t) ==
    {[thread |-> t, row |-> frame[t].gateway_calls[k].row,
      date |-> frame[t].gateway_calls[k].date,
      slot_index |-> frame[t].gateway_calls[k].slot_index] :
        k \in {j \in 1..Len(frame[t].gateway_calls) :
                  /\ frame[t].gateway_calls[j].platform = "youtube"
                  /\ \E r \in 1..Len(frame[t].results) :
                        /\ frame[t].results[r].success
                        /\ frame[t].attempted[r] =
                               [platform |-> "youtube",
                                row |-> frame[t].gateway_calls[j].row]}}

\* C35: two YouTube items uploaded for the same scheduled_date are never
\* given the same slot index while unused slots remain, whether one cycle
\* processes them or two cycles that overlap.
C35_SlotsNotShared ==
    \A a, b \in SlotsAssigned("timer") \cup SlotsAssigned("cmd") :
        a # b /\ a.date = b.date /\ a.row # b.row
            /\ a.slot_index < Len(UPLOAD_SCHEDULE_HOURS) - 1
            => a.slot_index # b.slot_index

\* Distance in minutes between two times of day, taken round the clock.
CircularDistance(a, b) ==
    LET d == (a - b) % MinutesPerDay
    IN Min2(d, MinutesPerDay - d)

WindowAnswered == call.fn = "is_upload_time" /\ "result" \in DOMAIN call

Slot2100 == <<"2", "1", ":", "0", "0">>
Slot0000 == <<"0", "0", ":", "0", "0">>

\* The examples of C36: slot 21:00 at 20:29 and 20:31, slot 00:00 at 23:45.
WindowExamples ==
    /\ call.schedule = <<Slot2100>> /\ call.current_minutes = 1229
          => ~call.result
    /\ call.schedule = <<Slot2100>> /\ call.current_minutes = 1231
          => call.result
    /\ call.schedule = <<Slot0000>> /\ call.current_minutes = 1425
          => call.result

TimeOfDay(time_str) ==
    /\ WellFormed(time_str)
    /\ ToInt(SplitColon(time_str)[1]) < 24
    /\ ToInt(SplitColon(time_str)[2]) < 60

Ingests == sheets' # sheets /\ ~CycleActs

\* C37: ingestion creates an item with status pending and makes no status
\* transition on an item that exists; only the processing step of a cycle
\* changes a status after creation.
C37_IngestionOnlyCreatesPending ==
    [][Ingests =>
          \A f \in SheetNames :
              /\ Len(sheets'[f]) >= Len(sheets[f])
              /\ \A i \in 1..Len(sheets'[f]) :
                    IF i <= Len(sheets[f])
                    THEN sheets'[f][i].status = sheets[f][i].status
                    ELSE sheets'[f][i].status = "pending"
      ]_vars

OtherSheet(f) == IF f = "sheet" THEN "fb_sheet" ELSE "sheet"
SheetPlatform(f) == IF f = "fb_sheet" THEN "facebook" ELSE "youtube"

\* C38: when a video file is ingested while the selected platform's
\* remaining daily quota is 0, the new item of that platform's queue ends
\* with scheduled_date equal to the day after the ingestion day, and no item
\* of the other platform's queue is changed.
C38_IngestedForTomorrow ==
    [][\A f \in SheetNames :
          Ingests /\ Len(sheets'[f]) = Len(sheets[f]) + 1
              /\ remaining_today(sheets, SheetPlatform(f), now.day) = 0
              => /\ sheets'[f][Len(sheets'[f])].scheduled_date = now.day + 1
                 /\ sheets'[OtherSheet(f)] = sheets[OtherSheet(f)]
      ]_vars

\* The columns of a row that hold text.
TextColumns ==
    {"filename", "drive_link", "title", "description", "tags", "status",
     "youtube_link", "channel"}

\* The step with which the current item of cycle t ends in failure.
ItemFails(t) ==
    ItemEnds(t) /\ ~frame'[t].results[Len(frame'[t].results)].success

FailureReason(t) == frame'[t].results[Len(frame'[t].results)].error

====
